---- MODULE Spec2Model ----
(***************************************************************************)
(* Model of portfolioopt/portfolioopt.py: the five public functions        *)
(* markowitz_portfolio, min_var_portfolio, tangency_portfolio,             *)
(* max_ret_portfolio and truncate_weights, the QP they hand to             *)
(* cvxopt.solvers.qp, the solver's global options and the caller's         *)
(* Series objects.                                                         *)
(*                                                                         *)
(* Numbers are exact rationals <<n, d>> in lowest terms with d > 0.  The   *)
(* three non-finite floats a division by zero produces are <<1, 0>> (inf), *)
(* <<-1, 0>> (-inf) and <<0, 0>> (nan).                                    *)
(***************************************************************************)
EXTENDS Integers, Sequences, FiniteSets, TLC

----------------------------------------------------------------------------
(* Bounds of the model *)

\* number of assets
NAssets == 2
\* largest numerator (over Den) of an entry of a Series given to
\* max_ret_portfolio or truncate_weights
MaxNum == 4
\* largest expected return (an integer) given to the solver-based functions
MaxRet == 1

\* denominator of the grid the inputs are drawn from
Den == 2

----------------------------------------------------------------------------
(* Exact arithmetic *)

AbsInt(n) == IF n < 0 THEN -n ELSE n
SignInt(n) == IF n < 0 THEN -1 ELSE IF n > 0 THEN 1 ELSE 0

RECURSIVE GCD(_, _)
GCD(a, b) == IF b = 0 THEN a ELSE GCD(b, a % b)

\* the float n/d; a zero divisor gives inf, -inf or nan
Q(n, d) ==
    IF d = 0 THEN <<SignInt(n), 0>>
    ELSE LET g == GCD(AbsInt(n), AbsInt(d))
             s == IF d < 0 THEN -1 ELSE 1
         IN  <<(s * n) \div g, (s * d) \div g>>

Zero == <<0, 1>>
One == <<1, 1>>
NaN == <<0, 0>>

IsFinite(a) == a[2] # 0
IsNaN(a) == a = NaN

Neg(a) == <<-a[1], a[2]>>
AbsQ(a) == <<AbsInt(a[1]), a[2]>>

\* IEEE addition: nan is absorbing, inf + -inf = nan
Add(a, b) ==
    IF IsNaN(a) \/ IsNaN(b) THEN NaN
    ELSE IF ~IsFinite(a) /\ ~IsFinite(b) THEN (IF a = b THEN a ELSE NaN)
    ELSE IF ~IsFinite(a) THEN a
    ELSE IF ~IsFinite(b) THEN b
    ELSE Q(a[1] * b[2] + b[1] * a[2], a[2] * b[2])

\* product and quotient of finite numbers
Mul(a, b) == Q(a[1] * b[1], a[2] * b[2])
Div(a, b) == Q(a[1] * b[2], a[2] * b[1])

\* comparisons of finite numbers
Lt(a, b) == a[1] * b[2] < b[1] * a[2]
Le(a, b) == a[1] * b[2] <= b[1] * a[2]

Range(s) == {s[i] : i \in DOMAIN s}

RECURSIVE SumTo(_, _)
SumTo(s, k) == IF k = 0 THEN Zero ELSE Add(SumTo(s, k - 1), s[k])

\* numpy sum of an array
SumArr(s) == SumTo(s, Len(s))

\* pandas Series.sum(): NaN entries are skipped
SeriesSum(s) == SumArr(SelectSeq(s, LAMBDA a : ~IsNaN(a)))

\* pandas Series.max() of a non-empty array of finite numbers
MaxArr(s) == CHOOSE m \in Range(s) : \A a \in Range(s) : Le(a, m)

Dot(u, v) == SumArr([i \in DOMAIN u |-> Mul(u[i], v[i])])

----------------------------------------------------------------------------
(* pandas objects *)

Assets == 1 .. NAssets

\* the asset labels of a data set, in order
AssetIndex == [i \in Assets |-> i]

Series(index, values) == [type |-> "Series", index |-> index, values |-> values]
NoSeries == Series(<<>>, <<>>)

\* How a slice s[:] of a Series relates to s in the installed pandas
\* (setup.py pins no version):
\*   "cow"          the slice is a copy (Copy-on-Write)
\*   "view"         the slice shares s's buffer; a masked assignment writes
\*                  through; x /= y gives x a fresh buffer
\*   "view_inplace" as "view", and x /= y writes the quotient into the
\*                  shared buffer
PandasBuilds == {"cow", "view", "view_inplace"}

DataFrame(index, values) ==
    [type |-> "DataFrame", index |-> index, values |-> values]

\* an object of another type holding the same numbers (an ndarray, a list)
Unlabeled(values) == [type |-> "ndarray", index |-> <<>>, values |-> values]

PyFloat(v) == [type |-> "float", value |-> v]
PyInt(v) == [type |-> "int", value |-> v]

----------------------------------------------------------------------------
(* max_ret_portfolio *)

\* weights[weights == weights.max()] = 1.0
MaxRetMarkMax(w) ==
    LET m == MaxArr(w) IN [i \in DOMAIN w |-> IF w[i] = m THEN One ELSE w[i]]

\* weights[weights != weights.max()] = 0.0
MaxRetZeroRest(w) ==
    LET m == MaxArr(w) IN [i \in DOMAIN w |-> IF w[i] # m THEN Zero ELSE w[i]]

\* weights /= weights.sum()
Rescale(w) ==
    LET s == SeriesSum(w) IN [i \in DOMAIN w |-> Div(w[i], s)]

\* The whole of max_ret_portfolio under a pandas build: what it returns or
\* raises, what the caller's exp_rets holds afterwards, and whether the
\* returned Series shares the caller's buffer.
MaxRetPortfolio(exp_rets, build) ==
    IF exp_rets.type # "Series"
    THEN [outcome |-> "raised", error |-> "Expected returns is not a Series",
          ret |-> NoSeries, caller |-> exp_rets, aliased |-> FALSE]
    ELSE LET w0 == exp_rets.values
             w1 == MaxRetMarkMax(w0)
             w2 == MaxRetZeroRest(w1)
             w3 == Rescale(w2)
         IN  [outcome |-> "returned", error |-> "",
              ret |-> Series(exp_rets.index, w3),
              caller |-> Series(exp_rets.index,
                                CASE build = "cow" -> w0
                                  [] build = "view" -> w2
                                  [] build = "view_inplace" -> w3),
              aliased |-> (build = "view_inplace")]

----------------------------------------------------------------------------
(* truncate_weights *)

\* faulty variant: the entry itself, not its absolute value, is compared
TruncateNoAbs(w, min_weight) ==
    [i \in DOMAIN w |-> IF Lt(w[i], min_weight) THEN Zero ELSE w[i]]

\* adj_weights[adj_weights.abs() < min_weight] = 0.0
Truncate(w, min_weight) ==
    [i \in DOMAIN w |-> IF Lt(AbsQ(w[i]), min_weight) THEN Zero ELSE w[i]]

\* faulty variant: the rescale flag is ignored and the weights always rescaled
RescaleAlways(rescale) == TRUE

\* if rescale:
RescaleRequested(rescale) == rescale

\* faulty variant: only a vector of zeros is refused
CannotRescaleAllZero(w) == \A i \in DOMAIN w : w[i] = Zero

\* if not adj_weights.sum(): raise ValueError(...)
CannotRescale(w) == SeriesSum(w) = Zero

\* The whole of truncate_weights under a pandas build.
TruncateWeights(weights, min_weight, rescale, build) ==
    IF weights.type # "Series"
    THEN [outcome |-> "raised", error |-> "Weight vector is not a Series",
          ret |-> NoSeries, caller |-> weights, aliased |-> FALSE]
    ELSE LET a0 == weights.values
             a1 == Truncate(a0, min_weight)
             \* the caller's buffer once the masked assignment has run
             mid == Series(weights.index, IF build = "cow" THEN a0 ELSE a1)
         IN  IF RescaleRequested(rescale) /\ CannotRescale(a1)
             THEN [outcome |-> "raised",
                   error |-> "Cannot rescale weight vector as sum is not finite",
                   ret |-> NoSeries, caller |-> mid, aliased |-> FALSE]
             ELSE IF RescaleRequested(rescale)
             THEN LET a2 == Rescale(a1)
                  IN  [outcome |-> "returned", error |-> "",
                       ret |-> Series(weights.index, a2),
                       caller |-> IF build = "view_inplace"
                                  THEN Series(weights.index, a2) ELSE mid,
                       aliased |-> (build = "view_inplace")]
             ELSE [outcome |-> "returned", error |-> "",
                   ret |-> Series(weights.index, a1),
                   caller |-> mid, aliased |-> (build # "cow")]

----------------------------------------------------------------------------
(* The quadratic programs handed to cvxopt.solvers.qp(P, q, G, h, A, b).   *)
(* A matrix is the sequence of its rows, a column vector the sequence of   *)
(* its entries; an argument that is None or left out has no rows.          *)

\* faulty variant: the row is not negated
NotNegated(v) == v

NegRow(v) == [i \in DOMAIN v |-> Neg(v[i])]
Identity(n) == [i \in 1 .. n |-> [j \in 1 .. n |-> IF i = j THEN One ELSE Zero]]
Zeros(n) == [i \in 1 .. n |-> Zero]
Ones(n) == [i \in 1 .. n |-> One]

\* faulty variant: the non-negativity rows are left out
ReturnRowOnly(rets, n) == <<NegRow(rets)>>

\* np.vstack((-exp_rets.values, -np.identity(n)))
ReturnAndLongOnlyRows(rets, n) ==
    <<NegRow(rets)>> \o [i \in 1 .. n |-> NegRow(Identity(n)[i])]

NoQP == [P |-> <<>>, q |-> <<>>, G |-> <<>>, h |-> <<>>, A |-> <<>>, b |-> <<>>]

\* faulty variant: the warning is given but allow_short is left as passed
NoCoercion(allow_short, market_neutral) == allow_short

\* if market_neutral and not allow_short: ... allow_short=True
CoerceAllowShort(allow_short, market_neutral) ==
    IF market_neutral /\ ~allow_short THEN TRUE ELSE allow_short

\* the warning that goes with the coercion
ShortingWarnings(allow_short, market_neutral) ==
    IF market_neutral /\ ~allow_short
    THEN <<"A market neutral portfolio implies shorting">>
    ELSE <<>>

\* faulty variant: the budget is 1 in every mode
BudgetAlwaysOne(market_neutral) == One

\* b of markowitz_portfolio
MarkowitzBudget(market_neutral) == IF ~market_neutral THEN One ELSE Zero

\* markowitz_portfolio's QP; allow_short is the flag after the coercion
MarkowitzQP(cov_mat, exp_rets, target_ret, allow_short, market_neutral) ==
    LET n == Len(cov_mat.values)
    IN  [P |-> cov_mat.values,
         q |-> Zeros(n),
         G |-> IF ~allow_short
               THEN ReturnAndLongOnlyRows(exp_rets.values, n)
               ELSE <<NegRow(exp_rets.values)>>,
         h |-> IF ~allow_short
               THEN <<Neg(target_ret.value)>> \o Zeros(n)
               ELSE <<Neg(target_ret.value)>>,
         A |-> <<Ones(n)>>,
         b |-> <<MarkowitzBudget(market_neutral)>>]

\* min_var_portfolio's QP
MinVarQP(cov_mat, allow_short) ==
    LET n == Len(cov_mat.values)
    IN  [P |-> cov_mat.values,
         q |-> Zeros(n),
         G |-> IF ~allow_short
               THEN [i \in 1 .. n |-> NegRow(Identity(n)[i])]
               ELSE <<>>,
         h |-> IF ~allow_short THEN Zeros(n) ELSE <<>>,
         A |-> <<Ones(n)>>,
         b |-> <<One>>]

\* tangency_portfolio's QP: no A, no b
TangencyQP(cov_mat, exp_rets, allow_short) ==
    LET n == Len(cov_mat.values)
    IN  [P |-> cov_mat.values,
         q |-> Zeros(n),
         G |-> IF ~allow_short
               THEN ReturnAndLongOnlyRows(exp_rets.values, n)
               ELSE <<NegRow(exp_rets.values)>>,
         h |-> IF ~allow_short
               THEN <<Neg(One)>> \o Zeros(n)
               ELSE <<Neg(One)>>,
         A |-> <<>>,
         b |-> <<>>]

----------------------------------------------------------------------------
(* cvxopt.solvers.qp, an external library.  It is modelled by its          *)
(* contract: a result with status 'optimal' satisfies the systems it was   *)
(* given; with status 'unknown' (the iteration limit was hit, or the       *)
(* problem is infeasible) x is the last iterate, which can be any vector.  *)

SatisfiesInequalities(prob, x) ==
    \A i \in DOMAIN prob.G : Le(Dot(prob.G[i], x), prob.h[i])

SatisfiesEqualities(prob, x) ==
    \A i \in DOMAIN prob.A : Dot(prob.A[i], x) = prob.b[i]

\* the entries a solution is drawn from
XVals == {Q(k, 2) : k \in -2 .. 2}

Statuses == {"optimal", "unknown"}

NoSol == [status |-> "", x |-> <<>>]

SolverCanReturn(prob, status, x) ==
    status = "optimal" =>
        SatisfiesInequalities(prob, x) /\ SatisfiesEqualities(prob, x)

SolverResults(prob) ==
    {r \in [status : Statuses, x : [1 .. Len(prob.q) -> XVals]] :
        SolverCanReturn(prob, r.status, r.x)}

\* faulty variant: the status is not looked at
NoConvergenceWarnings(sol) == <<>>

\* if sol['status'] != 'optimal': warnings.warn("Convergence problem")
ConvergenceWarnings(sol) ==
    IF sol.status # "optimal" THEN <<"Convergence problem">> ELSE <<>>

\* cvxopt.solvers.options, a dict that is empty when cvxopt is imported
NoOptions == [k \in {} |-> FALSE]

\* faulty variant: the option is set to the opposite value
SetOptionNegated(opts, key, value) ==
    [k \in DOMAIN opts \cup {key} |-> IF k = key THEN ~value ELSE opts[k]]

\* optsolvers.options[key] = value
SetOption(opts, key, value) ==
    [k \in DOMAIN opts \cup {key} |-> IF k = key THEN value ELSE opts[k]]

----------------------------------------------------------------------------
(* The solver-based functions.  Each operator is the whole function: the   *)
(* set of ways a call with these arguments can end, one per result the     *)
(* solver can return.                                                      *)

\* a call that raised ValueError(error) before reaching the solver
Raised(error, opts) ==
    [outcome |-> "raised", error |-> error, warnings |-> <<>>, qp |-> NoQP,
     sol |-> NoSol, ret |-> NoSeries, written |-> <<>>, options |-> opts]

\* a call that set show_progress, ran the solver and returned
Solved(prob, sol, warnings, ret, opts) ==
    [outcome |-> "returned", error |-> "", warnings |-> warnings, qp |-> prob,
     sol |-> sol, ret |-> ret, written |-> <<"show_progress">>,
     options |-> SetOption(opts, "show_progress", FALSE)]

\* faulty variant: the index comparison is left out
MarkowitzErrorNoIndexCheck(cov_mat, exp_rets, target_ret) ==
    IF cov_mat.type # "DataFrame" THEN "Covariance matrix is not a DataFrame"
    ELSE IF exp_rets.type # "Series" THEN "Expected returns is not a Series"
    ELSE IF target_ret.type # "float" THEN "Target return is not a float"
    ELSE ""

\* the checks that open markowitz_portfolio: "" when all pass
MarkowitzError(cov_mat, exp_rets, target_ret) ==
    IF cov_mat.type # "DataFrame" THEN "Covariance matrix is not a DataFrame"
    ELSE IF exp_rets.type # "Series" THEN "Expected returns is not a Series"
    ELSE IF target_ret.type # "float" THEN "Target return is not a float"
    ELSE IF cov_mat.index # exp_rets.index THEN "Indices do not match"
    ELSE ""

\* the check that opens min_var_portfolio
MinVarError(cov_mat) ==
    IF cov_mat.type # "DataFrame" THEN "Covariance matrix is not a DataFrame"
    ELSE ""

\* the checks that open tangency_portfolio
TangencyError(cov_mat, exp_rets) ==
    IF cov_mat.type # "DataFrame" THEN "Covariance matrix is not a DataFrame"
    ELSE IF exp_rets.type # "Series" THEN "Expected returns is not a Series"
    ELSE IF cov_mat.index # exp_rets.index THEN "Indices do not match"
    ELSE ""

\* weights = pd.Series(sol['x'], index=cov_mat.index)
LabeledWeights(sol, cov_mat) == Series(cov_mat.index, sol.x)

\* weights = pd.Series(sol['x'], index=cov_mat.index)
\* weights /= weights.sum()
RescaledWeights(sol, cov_mat) == Series(cov_mat.index, Rescale(sol.x))

MarkowitzPortfolio(cov_mat, exp_rets, target_ret, allow_short, market_neutral, opts) ==
    LET e == MarkowitzError(cov_mat, exp_rets, target_ret)
    IN  IF e # "" THEN {Raised(e, opts)}
        ELSE LET short == CoerceAllowShort(allow_short, market_neutral)
                 prob == MarkowitzQP(cov_mat, exp_rets, target_ret, short,
                                     market_neutral)
             IN  {Solved(prob, s,
                         ShortingWarnings(allow_short, market_neutral)
                            \o ConvergenceWarnings(s),
                         LabeledWeights(s, cov_mat), opts) :
                     s \in SolverResults(prob)}

MinVarPortfolio(cov_mat, allow_short, opts) ==
    LET e == MinVarError(cov_mat)
    IN  IF e # "" THEN {Raised(e, opts)}
        ELSE LET prob == MinVarQP(cov_mat, allow_short)
             IN  {Solved(prob, s, ConvergenceWarnings(s),
                         LabeledWeights(s, cov_mat), opts) :
                     s \in SolverResults(prob)}

TangencyPortfolio(cov_mat, exp_rets, allow_short, opts) ==
    LET e == TangencyError(cov_mat, exp_rets)
    IN  IF e # "" THEN {Raised(e, opts)}
        ELSE LET prob == TangencyQP(cov_mat, exp_rets, allow_short)
             IN  {Solved(prob, s, ConvergenceWarnings(s),
                         RescaledWeights(s, cov_mat), opts) :
                     s \in SolverResults(prob)}

----------------------------------------------------------------------------
(* The arguments the calls are made with *)

\* covariance matrices: variance v on the diagonal, covariance c off it
CovMats ==
    {[i \in Assets |-> [j \in Assets |->
                            IF i = j THEN Q(vc[1], 1) ELSE Q(vc[2], 1)]] :
        vc \in {<<1, 0>>, <<2, 0>>, <<2, 1>>}}

CovArgs ==
    {DataFrame(AssetIndex, m) : m \in CovMats}
        \cup {Unlabeled(Identity(NAssets))}

\* the same assets in another order, and another set of assets
ReorderedIndex == [i \in Assets |-> NAssets + 1 - i]
OtherIndex == [i \in Assets |-> IF i = NAssets THEN NAssets + 1 ELSE i]

RetVals == {Q(k, 1) : k \in -1 .. MaxRet}

RetArgs ==
    {Series(AssetIndex, v) : v \in [Assets -> RetVals]}
        \cup {Series(ix, Ones(NAssets)) : ix \in {ReorderedIndex, OtherIndex}}
        \cup {Unlabeled(Ones(NAssets))}

TargetArgs == {PyFloat(Zero), PyFloat(One), PyInt(One)}

\* entries of the Series given to max_ret_portfolio and truncate_weights
GridVals == {Q(k, Den) : k \in -Den .. MaxNum}

SeriesArgs ==
    {Series(AssetIndex, v) : v \in [Assets -> GridVals]}
        \cup {Unlabeled(Ones(NAssets))}

MinWeights == {Q(k, Den) : k \in 0 .. MaxNum}

----------------------------------------------------------------------------
(* State *)

VARIABLES
    pc,        \* "idle", or how the last call ended: "returned", "raised"
    fn,        \* the function called
    args,      \* its arguments, as the caller passed them
    err,       \* the message of the ValueError raised
    warns,     \* the warnings the call emitted, in order
    qp,        \* the problem handed to the solver
    sol,       \* what the solver returned
    ret,       \* the Series returned
    caller,    \* the caller's own Series argument, read after the call
    aliased,   \* whether ret shares its buffer with that argument
    written,   \* the keys of the solver's options the call assigned
    prev,      \* the result that was passed back in as this call's weights
    options,   \* cvxopt.solvers.options, global to the process
    pandas     \* the pandas build installed

vars == <<pc, fn, args, err, warns, qp, sol, ret, caller, aliased, written,
          prev, options, pandas>>

NoArgs == [k \in {} |-> FALSE]

Init ==
    /\ pc = "idle"
    /\ fn = "none"
    /\ args = NoArgs
    /\ err = ""
    /\ warns = <<>>
    /\ qp = NoQP
    /\ sol = NoSol
    /\ ret = NoSeries
    /\ caller = NoSeries
    /\ aliased = FALSE
    /\ written = <<>>
    /\ prev = NoSeries
    /\ options = NoOptions
    /\ pandas \in PandasBuilds

\* a solver-based call ending as `end`
SolverCallEnds(name, a, end) ==
    /\ pc' = end.outcome
    /\ fn' = name
    /\ args' = a
    /\ err' = end.error
    /\ warns' = end.warnings
    /\ qp' = end.qp
    /\ sol' = end.sol
    /\ ret' = end.ret
    /\ written' = end.written
    /\ options' = end.options
    /\ caller' = NoSeries
    /\ aliased' = FALSE
    /\ prev' = NoSeries
    /\ UNCHANGED pandas

\* a call of max_ret_portfolio or truncate_weights ending as `end`
SeriesCallEnds(name, a, end, passedBack) ==
    /\ pc' = end.outcome
    /\ fn' = name
    /\ args' = a
    /\ err' = end.error
    /\ ret' = end.ret
    /\ caller' = end.caller
    /\ aliased' = end.aliased
    /\ prev' = passedBack
    /\ warns' = <<>>
    /\ qp' = NoQP
    /\ sol' = NoSol
    /\ written' = <<>>
    /\ UNCHANGED <<options, pandas>>

markowitz_portfolio ==
    /\ pc = "idle"
    /\ \E cov_mat \in CovArgs, exp_rets \in RetArgs, target_ret \in TargetArgs,
          allow_short \in BOOLEAN, market_neutral \in BOOLEAN :
          \E end \in MarkowitzPortfolio(cov_mat, exp_rets, target_ret,
                                        allow_short, market_neutral, options) :
              SolverCallEnds("markowitz_portfolio",
                             [cov_mat |-> cov_mat, exp_rets |-> exp_rets,
                              target_ret |-> target_ret,
                              allow_short |-> allow_short,
                              market_neutral |-> market_neutral],
                             end)

min_var_portfolio ==
    /\ pc = "idle"
    /\ \E cov_mat \in CovArgs, allow_short \in BOOLEAN :
          \E end \in MinVarPortfolio(cov_mat, allow_short, options) :
              SolverCallEnds("min_var_portfolio",
                             [cov_mat |-> cov_mat, allow_short |-> allow_short],
                             end)

tangency_portfolio ==
    /\ pc = "idle"
    /\ \E cov_mat \in CovArgs, exp_rets \in RetArgs, allow_short \in BOOLEAN :
          \E end \in TangencyPortfolio(cov_mat, exp_rets, allow_short, options) :
              SolverCallEnds("tangency_portfolio",
                             [cov_mat |-> cov_mat, exp_rets |-> exp_rets,
                              allow_short |-> allow_short],
                             end)

max_ret_portfolio ==
    /\ pc = "idle"
    /\ \E exp_rets \in SeriesArgs :
          SeriesCallEnds("max_ret_portfolio", [exp_rets |-> exp_rets],
                         MaxRetPortfolio(exp_rets, pandas), NoSeries)

truncate_weights ==
    /\ pc = "idle"
    /\ \E weights \in SeriesArgs, min_weight \in MinWeights,
          rescale \in BOOLEAN :
          SeriesCallEnds("truncate_weights",
                         [weights |-> weights, min_weight |-> min_weight,
                          rescale |-> rescale],
                         TruncateWeights(weights, min_weight, rescale, pandas),
                         NoSeries)

\* the caller passes the Series truncate_weights returned to truncate_weights
\* again, with the same min_weight and rescale
truncate_weights_again ==
    /\ pc = "returned"
    /\ fn = "truncate_weights"
    /\ SeriesCallEnds("truncate_weights",
                      [args EXCEPT !.weights = ret],
                      TruncateWeights(ret, args.min_weight, args.rescale,
                                      pandas),
                      ret)

\* the caller drops the result and goes on
CallerContinues ==
    /\ pc # "idle"
    /\ pc' = "idle"
    /\ fn' = "none"
    /\ args' = NoArgs
    /\ err' = ""
    /\ warns' = <<>>
    /\ qp' = NoQP
    /\ sol' = NoSol
    /\ ret' = NoSeries
    /\ caller' = NoSeries
    /\ aliased' = FALSE
    /\ written' = <<>>
    /\ prev' = NoSeries
    /\ UNCHANGED <<options, pandas>>

Next ==
    \/ markowitz_portfolio
    \/ min_var_portfolio
    \/ tangency_portfolio
    \/ max_ret_portfolio
    \/ truncate_weights
    \/ truncate_weights_again
    \/ CallerContinues

Spec == Init /\ [][Next]_vars

----------------------------------------------------------------------------
(* Properties *)

SolverFns == {"markowitz_portfolio", "min_var_portfolio", "tangency_portfolio"}

Called(name) == pc # "idle" /\ fn = name
Returned(name) == pc = "returned" /\ fn = name

\* the number of entries of w equal to v
Count(w, v) == Cardinality({i \in DOMAIN w : w[i] = v})

\* C1: for every non-empty expected-return vector, max_ret_portfolio returns
\* weight 1/k on each of the k assets whose return equals the maximum and 0
\* on every other asset, so the result sums to 1.
C1_MaxRetEqualWeightOnMaxima ==
    (Returned("max_ret_portfolio")) =>
        LET r == args.exp_rets.values
            m == CHOOSE v \in Range(r) : \A u \in Range(r) : Le(u, v)
            k == Count(r, m)
        IN  /\ ret.index = args.exp_rets.index
            /\ \A i \in DOMAIN r :
                  ret.values[i] = IF r[i] = m THEN Q(1, k) ELSE Zero
            /\ SeriesSum(ret.values) = One

\* C2 as stated: a second truncate_weights of the result, with the same
\* min_weight and either value of rescale, returns the first result again.
C2_TruncateIdempotent ==
    (Called("truncate_weights") /\ prev # NoSeries) =>
        (pc = "returned" /\ ret = prev)

\* C2, amended: with rescale=False a second truncate_weights of the result,
\* with the same min_weight, returns the first result again.
C2_TruncateIdempotentNoRescale ==
    (Called("truncate_weights") /\ prev # NoSeries /\ ~args.rescale) =>
        (pc = "returned" /\ ret = prev)

\* a second application, without rescaling, of a result in which the first
\* application zeroed an entry and kept another
C2_Witness ==
    /\ Returned("truncate_weights")
    /\ prev # NoSeries
    /\ ~args.rescale
    /\ Lt(Zero, args.min_weight)
    /\ \E i, j \in DOMAIN prev.values :
          prev.values[i] = Zero /\ prev.values[j] # Zero

\* C3: tangency_portfolio always returns a weight vector that sums to 1, for
\* both values of allow_short and every solution the solver can return.
C3_TangencySumsToOne ==
    Returned("tangency_portfolio") => SeriesSum(ret.values) = One

\* the input weights of the call with the entries of absolute value below
\* min_weight set to zero
TruncatedInput ==
    [i \in DOMAIN args.weights.values |->
        IF Lt(AbsQ(args.weights.values[i]), args.min_weight)
        THEN Zero ELSE args.weights.values[i]]

\* C4: truncate_weights with rescale=True has exactly two outcomes: if the
\* truncated vector sums to zero it fails with the degenerate-result error
\* and returns no vector; otherwise it returns a vector that sums to 1.
C4_RescaleTwoOutcomes ==
    (Called("truncate_weights") /\ args.weights.type = "Series"
        /\ args.rescale) =>
        IF SumArr(TruncatedInput) = Zero
        THEN /\ pc = "raised"
             /\ err = "Cannot rescale weight vector as sum is not finite"
             /\ ret = NoSeries
        ELSE /\ pc = "returned"
             /\ err = ""
             /\ SeriesSum(ret.values) = One

\* the degenerate failure on a vector that keeps non-zero entries after the
\* truncation: they cancel
C4_Witness ==
    /\ Called("truncate_weights")
    /\ args.rescale
    /\ pc = "raised"
    /\ err = "Cannot rescale weight vector as sum is not finite"
    /\ \E i \in DOMAIN TruncatedInput : TruncatedInput[i] # Zero

\* the arguments of a markowitz_portfolio or tangency_portfolio call are
\* invalid
InvalidInput ==
    \/ args.cov_mat.type # "DataFrame"
    \/ args.exp_rets.type # "Series"
    \/ fn = "markowitz_portfolio" /\ args.target_ret.type # "float"
    \/ args.cov_mat.index # args.exp_rets.index

\* C5: in markowitz_portfolio and tangency_portfolio any invalid input makes
\* the call fail with the invalid-input error, and on a failing call the
\* solver is not invoked and no solver option has been written.
C5_InvalidInputFailsBeforeSolver ==
    (pc # "idle" /\ fn \in {"markowitz_portfolio", "tangency_portfolio"}) =>
        /\ InvalidInput =>
              /\ pc = "raised"
              /\ err \in {"Covariance matrix is not a DataFrame",
                          "Expected returns is not a Series",
                          "Target return is not a float",
                          "Indices do not match"}
        /\ pc = "raised" =>
              /\ InvalidInput
              /\ qp = NoQP
              /\ sol = NoSol
              /\ written = <<>>
              /\ ret = NoSeries

\* a call that fails because the two indexes hold the same assets in a
\* different order
C5_Witness ==
    /\ Called("markowitz_portfolio")
    /\ pc = "raised"
    /\ err = "Indices do not match"
    /\ args.exp_rets.index # args.cov_mat.index
    /\ Range(args.exp_rets.index) = Range(args.cov_mat.index)
    /\ sol = NoSol

ShortingMessage == "A market neutral portfolio implies shorting"
ConvergenceMessage == "Convergence problem"

\* the number of times message m was emitted
Emitted(m) == Cardinality({i \in DOMAIN warns : warns[i] = m})

\* a markowitz_portfolio call with valid inputs, market_neutral=True and
\* allow_short=False
NeutralWithoutShort ==
    /\ Called("markowitz_portfolio")
    /\ ~InvalidInput
    /\ args.market_neutral
    /\ ~args.allow_short

\* the QP built for market_neutral=True, allow_short=True on the call's
\* cov_mat, exp_rets and target_ret: one return-floor row, b = 0
NeutralShortQP ==
    [P |-> args.cov_mat.values,
     q |-> [i \in Assets |-> Zero],
     G |-> <<[i \in Assets |-> Neg(args.exp_rets.values[i])]>>,
     h |-> <<Neg(args.target_ret.value)>>,
     A |-> <<[i \in Assets |-> One]>>,
     b |-> <<Zero>>]

\* C6 as stated: markowitz_portfolio with market_neutral=True and
\* allow_short=False does not raise, emits exactly one warning, and hands
\* the solver the QP of market_neutral=True, allow_short=True.
C6_NeutralCoercedOneWarning ==
    NeutralWithoutShort =>
        /\ pc = "returned"
        /\ Len(warns) = 1
        /\ qp = NeutralShortQP

\* C6, amended: the call does not raise, emits the shorting warning exactly
\* once and before anything else, emits besides it only the convergence
\* warning, once, and only when the solver's status is not optimal, and
\* hands the solver the QP of market_neutral=True, allow_short=True.
C6_NeutralCoercedShortingWarning ==
    NeutralWithoutShort =>
        /\ pc = "returned"
        /\ Emitted(ShortingMessage) = 1
        /\ warns[1] = ShortingMessage
        /\ Len(warns) = IF sol.status = "optimal" THEN 1 ELSE 2
        /\ Len(warns) = 2 => warns[2] = ConvergenceMessage
        /\ qp = NeutralShortQP
        /\ qp = MarkowitzQP(args.cov_mat, args.exp_rets, args.target_ret,
                            TRUE, TRUE)

\* the coerced call with an optimal solution that shorts an asset
C6_Witness ==
    /\ NeutralWithoutShort
    /\ pc = "returned"
    /\ sol.status = "optimal"
    /\ warns = <<ShortingMessage>>
    /\ \E i \in DOMAIN ret.values : Lt(ret.values[i], Zero)

\* the budget of the call's mode
Budget ==
    IF fn = "markowitz_portfolio" /\ args.market_neutral THEN Zero ELSE One

\* C7: min_var_portfolio and markowitz_portfolio pass sum(w) = 1 to the
\* solver, or sum(w) = 0 when market_neutral is set, and return a vector
\* with that sum whenever the solver's solution satisfies the equality
\* system it was given.
C7_SumIsBudget ==
    (pc = "returned" /\ fn \in {"min_var_portfolio", "markowitz_portfolio"}) =>
        /\ qp.A = <<[i \in Assets |-> One]>>
        /\ qp.b = <<Budget>>
        /\ (SumArr(sol.x) = qp.b[1]) => SeriesSum(ret.values) = Budget

\* a market-neutral portfolio with a position, summing to 0
C7_Witness ==
    /\ Returned("markowitz_portfolio")
    /\ args.market_neutral
    /\ sol.status = "optimal"
    /\ SeriesSum(ret.values) = Zero
    /\ \E i \in DOMAIN ret.values : Lt(Zero, ret.values[i])

\* the solver's solution as the call returns it: as it is, and divided by
\* its sum in tangency_portfolio
ReturnedSolution ==
    IF fn = "tangency_portfolio"
    THEN [i \in DOMAIN sol.x |-> Div(sol.x[i], SumArr(sol.x))]
    ELSE sol.x

\* the arguments of a min_var_portfolio, markowitz_portfolio or
\* tangency_portfolio call are valid
ValidSolverInput ==
    IF fn = "min_var_portfolio" THEN args.cov_mat.type = "DataFrame"
    ELSE ~InvalidInput

\* C8: in the three solver-based functions a status other than optimal makes
\* the call emit the convergence warning and still return the solver's
\* solution labeled by the covariance matrix's index; the status never makes
\* the call raise; with status optimal no convergence warning is emitted.
C8_NonOptimalWarnsAndReturns ==
    (pc # "idle" /\ fn \in SolverFns) =>
        /\ ValidSolverInput => pc = "returned"
        /\ pc = "returned" =>
              /\ sol.status \in Statuses
              /\ Emitted(ConvergenceMessage) =
                    IF sol.status # "optimal" THEN 1 ELSE 0
              /\ ret.index = args.cov_mat.index
              /\ ret.values = ReturnedSolution
              /\ err = ""

\* a min_var_portfolio call returning the iterate of a solver that did not
\* converge, an iterate that breaks the constraints
C8_Witness ==
    /\ Returned("min_var_portfolio")
    /\ sol.status = "unknown"
    /\ warns = <<ConvergenceMessage>>
    /\ ret.values = sol.x
    /\ SumArr(sol.x) # One

\* the caller's Series argument as it was passed
SeriesArgument ==
    IF fn = "max_ret_portfolio" THEN args.exp_rets ELSE args.weights

\* C9: after max_ret_portfolio(exp_rets) and after truncate_weights(weights,
\* ...), also when it fails, the caller's Series holds the values it held
\* before the call, and the result shares no storage with it.
C9_InputUntouched ==
    (pc # "idle" /\ fn \in {"max_ret_portfolio", "truncate_weights"}) =>
        /\ caller = SeriesArgument
        /\ ~aliased

\* C10 as stated: after any sequence of calls the solver's global options
\* equal their value before the first call.
C10_OptionsNeverChange == options = NoOptions

\* C10, amended: the solver's global options change only when a solver-based
\* call passes its input checks, which sets show_progress to False and
\* nothing else; the value stays for every later call; max_ret_portfolio,
\* truncate_weights and failing calls leave the options as they are.
C10_OnlyShowProgressWritten ==
    [][/\ options' # options =>
            /\ fn' \in SolverFns
            /\ pc' = "returned"
            /\ options' = [k \in DOMAIN options \cup {"show_progress"} |->
                             IF k = "show_progress" THEN FALSE ELSE options[k]]
       /\ (pc' = "returned" /\ fn' \in SolverFns) =>
            /\ "show_progress" \in DOMAIN options'
            /\ options'["show_progress"] = FALSE
            /\ written' = <<"show_progress">>
       /\ (pc' = "raised" \/ fn' \notin SolverFns) =>
            /\ options' = options
            /\ written' = <<>>]_vars

\* a max_ret_portfolio call made while an earlier call's show_progress
\* setting is still in the solver's options
C10_Witness ==
    /\ Returned("max_ret_portfolio")
    /\ "show_progress" \in DOMAIN options
    /\ options["show_progress"] = FALSE
    /\ written = <<>>

\* the call is a long-only one: allow_short=False, and market_neutral=False
\* where there is such a flag
LongOnlyCall ==
    /\ pc = "returned"
    /\ fn \in SolverFns
    /\ ~args.allow_short
    /\ fn = "markowitz_portfolio" => ~args.market_neutral

\* the solver's solution satisfies the inequality system it was given
SolutionWithinInequalities ==
    \A i \in DOMAIN qp.G :
        Le(SumArr([j \in DOMAIN sol.x |-> Mul(qp.G[i][j], sol.x[j])]), qp.h[i])

\* C11: every weight vector returned by a long-only call of
\* min_var_portfolio, markowitz_portfolio or tangency_portfolio has no
\* negative entry whenever the solver's solution satisfies the inequality
\* system G x <= h it was given; tangency_portfolio's division by the sum
\* turns no non-negative entry negative.
C11_LongOnlyNonNegative ==
    (LongOnlyCall /\ SolutionWithinInequalities) =>
        \A i \in DOMAIN ret.values :
            /\ IsFinite(ret.values[i])
            /\ Le(Zero, ret.values[i])

\* a long-only tangency portfolio whose raw solution did not sum to 1, so
\* that the division by the sum changed its positive entries
C11_Witness ==
    /\ LongOnlyCall
    /\ fn = "tangency_portfolio"
    /\ SolutionWithinInequalities
    /\ SumArr(sol.x) # One
    /\ \E i \in DOMAIN ret.values :
          /\ Lt(Zero, ret.values[i])
          /\ ret.values[i] # sol.x[i]

\* C12: for n assets markowitz_portfolio builds G x <= h as follows: when
\* long-only, G has n+1 rows (the negated expected returns, then the negated
\* identity) and h = (-target_ret, 0, ..., 0); when allow_short or
\* market_neutral is set, G has one row (the negated expected returns) and
\* h = (-target_ret); in every mode P is the covariance matrix and q is zero.
C12_MarkowitzInequalities ==
    Returned("markowitz_portfolio") =>
        LET n == Len(args.cov_mat.values)
            r == args.exp_rets.values
            t == args.target_ret.value
            negated == [j \in 1 .. n |-> <<-r[j][1], r[j][2]>>]
        IN  /\ n = NAssets
            /\ qp.P = args.cov_mat.values
            /\ qp.q = [j \in 1 .. n |-> Zero]
            /\ qp.G[1] = negated
            /\ qp.h[1] = <<-t[1], t[2]>>
            /\ IF ~args.allow_short /\ ~args.market_neutral
               THEN /\ Len(qp.G) = n + 1
                    /\ Len(qp.h) = n + 1
                    /\ \A i \in 1 .. n :
                          /\ qp.G[i + 1] =
                                [j \in 1 .. n |-> IF i = j THEN <<-1, 1>> ELSE Zero]
                          /\ qp.h[i + 1] = Zero
               ELSE /\ Len(qp.G) = 1
                    /\ Len(qp.h) = 1

\* a long-only call with a non-zero target return and distinct, non-zero
\* expected returns
C12_Witness ==
    /\ Returned("markowitz_portfolio")
    /\ ~args.allow_short
    /\ ~args.market_neutral
    /\ args.target_ret.value = One
    /\ Len(qp.G) = NAssets + 1
    /\ args.exp_rets.values[1] # args.exp_rets.values[2]
    /\ \A j \in Assets : args.exp_rets.values[j] # Zero

\* the absolute value of entry i of the weights passed is below min_weight
BelowMinWeight(i) ==
    LET w == args.weights.values[i]
        m == args.min_weight
    IN  (IF w[1] < 0 THEN -w[1] ELSE w[1]) * m[2] < m[1] * w[2]

\* C13: truncate_weights with rescale=False returns a vector over the same
\* index in which every entry of absolute value strictly below min_weight,
\* positive or negative, is 0 and every other entry equals the input entry;
\* with min_weight = 0 no entry is changed.
C13_TruncateEntries ==
    (Called("truncate_weights") /\ args.weights.type = "Series"
        /\ ~args.rescale) =>
        /\ pc = "returned"
        /\ ret.index = args.weights.index
        /\ DOMAIN ret.values = DOMAIN args.weights.values
        /\ \A i \in DOMAIN ret.values :
              ret.values[i] =
                  IF BelowMinWeight(i) THEN Zero ELSE args.weights.values[i]
        /\ args.min_weight = Zero => ret.values = args.weights.values

\* a call that zeroes a small negative entry and keeps a negative entry
\* whose absolute value equals min_weight
C13_Witness ==
    /\ Returned("truncate_weights")
    /\ ~args.rescale
    /\ prev = NoSeries
    /\ \E i, j \in DOMAIN ret.values :
          /\ Lt(args.weights.values[i], Zero)
          /\ BelowMinWeight(i)
          /\ ret.values[i] = Zero
          /\ Lt(args.weights.values[j], Zero)
          /\ AbsQ(args.weights.values[j]) = args.min_weight
          /\ ret.values[j] = args.weights.values[j]

\* the sign of a number: -1, 0 or 1
SignOf(a) == IF a[1] < 0 THEN -1 ELSE IF a[1] > 0 THEN 1 ELSE 0

\* exp_rets . v for the call's expected returns
ExpectedReturn(v) ==
    SumArr([j \in DOMAIN v |-> Mul(args.exp_rets.values[j], v[j])])

\* C14: tangency_portfolio's rescaling preserves the direction of the
\* solver's solution: for both values of allow_short the returned weights
\* are the raw solution x times a strictly positive factor, so whenever x
\* satisfies exp_rets . x >= 1 the returned portfolio has a strictly positive
\* expected return and each weight has the sign of its raw entry.
C14_RescalingKeepsDirection ==
    Returned("tangency_portfolio") =>
        LET factor == Div(One, SumArr(sol.x))
        IN  /\ IsFinite(factor)
            /\ Lt(Zero, factor)
            /\ \A i \in DOMAIN sol.x : ret.values[i] = Mul(factor, sol.x[i])
            /\ Le(One, ExpectedReturn(sol.x)) =>
                  /\ Lt(Zero, ExpectedReturn(ret.values))
                  /\ \A i \in DOMAIN sol.x :
                        SignOf(ret.values[i]) = SignOf(sol.x[i])

====
